---- MODULE Spec2Model ----
(***************************************************************************)
(* A model of the notion-cli-summary scripts: the Notion task adapter      *)
(* (notion_db_client.py), the calendar adapter and its formatter           *)
(* (calendar_client.py) and the command line glue (cli.py).                *)
(*                                                                         *)
(* Python values are modelled as follows.                                  *)
(*   - a str that the code inspects character by character is a sequence   *)
(*     of one-character strings;                                           *)
(*   - a call's outcome is Ok(v) (it returned v) or Raise(e) (exception e  *)
(*     left the call);                                                     *)
(*   - None is the record NoneVal, a list is List(items).                  *)
(***************************************************************************)
EXTENDS Integers, Sequences, FiniteSets, TLC

VARIABLES
    \* ---- notion_db_client.py / cli.py lines 62-70
    n_pc,        \* "start" | "queried" | "loop" | "returned" | "raised"
    n_mode,      \* which query the CLI ran: "recent" | "today"
    n_failed,    \* TRUE iff databases.query raised
    n_result,    \* what get_recent / get_today returned
    n_idx,       \* position of the for loop of get_page_strings
    n_lookups,   \* outcome of the requests.get of each get_name_from_id call so far
    n_strings,   \* page_strings
    n_exc,       \* the exception that left get_page_strings, "" if none
    \* ---- calendar_client.py, get_days_events
    c_pc,        \* "idle" | "called"
    c_now,       \* the current date, as a position in DayList
    c_loaded,    \* the date datetime.now() gave when the def statement ran
    c_call,      \* the last call: response met, req_date given or not, today
    c_out,       \* what the last call returned or raised
    \* ---- calendar_client.py, get_event_strings
    f_pc,        \* "idle" | "done"
    f_events,    \* the argument of the last call
    f_out,       \* the list it returned
    \* ---- cli.py lines 72-78
    m_pc,        \* "start" | "loop" | "printed" | "raised"
    m_urls,      \* what the GET of each calendar URL meets
    m_idx,       \* position of the for loop
    m_all,       \* all_event_strings
    m_printed,   \* the lines print_today_events printed
    m_exc        \* the exception that left main, "" if none

nvars == <<n_pc, n_mode, n_failed, n_result, n_idx, n_lookups, n_strings, n_exc>>

cvars == <<c_pc, c_now, c_loaded, c_call, c_out>>
fvars == <<f_pc, f_events, f_out>>
mvars == <<m_pc, m_urls, m_idx, m_all, m_printed, m_exc>>
vars == <<nvars, cvars, fvars, mvars>>

\* --------------------------------------------------------------- bounds
\* Largest number of rows in one query response.
MaxRows == 3
\* Largest number of VEVENTs in one calendar document.
MaxEvents == 2
\* The clock runs over the first MaxDay days of DayList.
MaxDay == 3
\* Largest number of display records in one get_event_strings call.
MaxRecords == 2
\* Largest number of calendar URLs in the configuration.
MaxUrls == 3

\* ------------------------------------------------------- Python values
Ok(v) == [tag |-> "ok", val |-> v]
Raise(e) == [tag |-> "raise", exc |-> e]
NoneVal == [py |-> "None"]
List(items) == [py |-> "list", items |-> items]
\* Python truthiness of an Optional[list]: None and [] are falsy.
Truthy(v) == v.py = "list" /\ Len(v.items) > 0

\* ------------------------------------------------------------- strings
Digits == {"0", "1", "2", "3", "4", "5", "6", "7", "8", "9"}
DigitVal(c) ==
    CASE c = "0" -> 0 [] c = "1" -> 1 [] c = "2" -> 2 [] c = "3" -> 3
      [] c = "4" -> 4 [] c = "5" -> 5 [] c = "6" -> 6 [] c = "7" -> 7
      [] c = "8" -> 8 [] c = "9" -> 9
IsDigitAt(s, i) == i >= 1 /\ i <= Len(s) /\ s[i] \in Digits

\* str.endswith(c) for a one-character c
EndsWith(s, c) == Len(s) > 0 /\ s[Len(s)] = c
\* c in s
Contains(s, c) == \E i \in 1..Len(s) : s[i] = c
\* s.count(c)
Count(s, c) == Cardinality({i \in 1..Len(s) : s[i] = c})
\* s.split(c)[0]: the text before the first c
SplitFirst(s, c) ==
    LET i == CHOOSE k \in 1..Len(s) : s[k] = c /\ \A j \in 1..(k - 1) : s[j] # c
    IN  SubSeq(s, 1, i - 1)
\* s.rsplit(c, 1)[0]: the text before the last c
RSplitLast(s, c) ==
    LET i == CHOOSE k \in 1..Len(s) : s[k] = c /\ \A j \in (k + 1)..Len(s) : s[j] # c
    IN  SubSeq(s, 1, i - 1)

\* -------------------------------------------- datetime.strptime
\* The three formats _parse_date tries, as directive and literal tokens.
FmtFraction == <<"%Y", "-", "%m", "-", "%d", "T", "%H", ":", "%M", ":", "%S", ".", "%f">>
FmtSeconds == <<"%Y", "-", "%m", "-", "%d", "T", "%H", ":", "%M", ":", "%S">>
FmtDate == <<"%Y", "-", "%m", "-", "%d">>

\* The value of the two digits at i, i+1, or -1.
Num2(s, i) ==
    IF IsDigitAt(s, i) /\ IsDigitAt(s, i + 1)
    THEN 10 * DigitVal(s[i]) + DigitVal(s[i + 1]) ELSE -1

\* How many of the characters from i on are digits, at most max.
RECURSIVE DigitRun(_, _, _)
DigitRun(s, i, max) ==
    IF max = 0 \/ ~IsDigitAt(s, i) THEN 0 ELSE 1 + DigitRun(s, i + 1, max - 1)

RECURSIVE DigitsValue(_, _, _)
DigitsValue(s, i, n) ==
    IF n = 0 THEN 0 ELSE DigitsValue(s, i, n - 1) * 10 + DigitVal(s[i + n - 1])

RECURSIVE Pow10(_)
Pow10(n) == IF n = 0 THEN 1 ELSE 10 * Pow10(n - 1)

\* One directive of _strptime's regular expression matched at position i:
\* [len |-> characters consumed (0: no match), val |-> the number read].
\* A two-digit alternative is tried before the one-digit one, as in the
\* regular expressions of _strptime.TimeRE.
TwoOrOne(s, i, lo2, hi2, lo1) ==
    IF Num2(s, i) >= lo2 /\ Num2(s, i) <= hi2 THEN [len |-> 2, val |-> Num2(s, i)]
    ELSE IF IsDigitAt(s, i) /\ DigitVal(s[i]) >= lo1 THEN [len |-> 1, val |-> DigitVal(s[i])]
    ELSE [len |-> 0, val |-> 0]

Directive(tok, s, i) ==
    CASE tok = "%Y" -> IF DigitRun(s, i, 4) = 4
                       THEN [len |-> 4, val |-> DigitsValue(s, i, 4)]
                       ELSE [len |-> 0, val |-> 0]
      [] tok = "%m" -> TwoOrOne(s, i, 1, 12, 1)
      [] tok = "%d" -> TwoOrOne(s, i, 1, 31, 1)
      [] tok = "%H" -> TwoOrOne(s, i, 0, 23, 0)
      [] tok = "%M" -> TwoOrOne(s, i, 0, 59, 0)
      [] tok = "%S" -> TwoOrOne(s, i, 0, 61, 0)
      [] tok = "%f" -> LET n == DigitRun(s, i, 6)
                       IN  [len |-> n,
                            val |-> IF n = 0 THEN 0
                                    ELSE DigitsValue(s, i, n) * Pow10(6 - n)]

IsDirective(tok) == tok \in {"%Y", "%m", "%d", "%H", "%M", "%S", "%f"}

\* The fields strptime starts from.
EpochFields ==
    [Y |-> 1900, m |-> 1, d |-> 1, H |-> 0, M |-> 0, S |-> 0, f |-> 0]

SetField(acc, tok, v) ==
    CASE tok = "%Y" -> [acc EXCEPT !.Y = v]
      [] tok = "%m" -> [acc EXCEPT !.m = v]
      [] tok = "%d" -> [acc EXCEPT !.d = v]
      [] tok = "%H" -> [acc EXCEPT !.H = v]
      [] tok = "%M" -> [acc EXCEPT !.M = v]
      [] tok = "%S" -> [acc EXCEPT !.S = v]
      [] tok = "%f" -> [acc EXCEPT !.f = v]

IsLeap(y) == (y % 4 = 0 /\ y % 100 # 0) \/ y % 400 = 0
DaysInMonth(y, m) ==
    IF m = 2 THEN (IF IsLeap(y) THEN 29 ELSE 28)
    ELSE IF m \in {4, 6, 9, 11} THEN 30 ELSE 31

\* Match s from position i against fmt from token j: Ok(fields) when the
\* whole of s is consumed, Raise("ValueError") otherwise.
RECURSIVE MatchFrom(_, _, _, _, _)
MatchFrom(s, i, fmt, j, acc) ==
    IF j > Len(fmt)
    THEN IF i = Len(s) + 1 /\ acc.d <= DaysInMonth(acc.Y, acc.m) /\ acc.S <= 59
         THEN Ok(acc) ELSE Raise("ValueError")
    ELSE IF IsDirective(fmt[j])
    THEN LET r == Directive(fmt[j], s, i)
         IN  IF r.len = 0 THEN Raise("ValueError")
             ELSE MatchFrom(s, i + r.len, fmt, j + 1, SetField(acc, fmt[j], r.val))
    ELSE IF i <= Len(s) /\ s[i] = fmt[j]
    THEN MatchFrom(s, i + 1, fmt, j + 1, acc)
    ELSE Raise("ValueError")

strptime(s, fmt) == MatchFrom(s, 1, fmt, 1, EpochFields)

\* ------------------------------------------- NotionClient._parse_date
\* Lines 136-141: remove the timezone part if it exists.
StripTimezone(date_str) ==
    IF EndsWith(date_str, "Z") THEN SubSeq(date_str, 1, Len(date_str) - 1)
    ELSE IF Contains(date_str, "+") THEN SplitFirst(date_str, "+")
    ELSE IF Contains(date_str, "-") /\ Count(date_str, "-") > 2
    THEN RSplitLast(date_str, "-")
    ELSE date_str

\* Lines 143-152 of _parse_date: the three nested attempts; the ValueError of the last
\* one leaves the method.
FirstParse(fraction, seconds, date_only) ==
    IF fraction.tag = "ok" THEN fraction
    ELSE IF seconds.tag = "ok" THEN seconds
    ELSE date_only

ParseStripped(s) ==
    FirstParse(strptime(s, FmtFraction), strptime(s, FmtSeconds), strptime(s, FmtDate))

_parse_date(date_str) == ParseStripped(StripTimezone(date_str))

\* ------------------------------------------------ rows of a query response
\* A property of a row is present and usable ("ok"), a missing key
\* ("absent": subscripting raises KeyError), an empty list ("empty": [0]
\* raises IndexError) or null ("null": subscripting None raises TypeError).
SubscriptError(shape) ==
    CASE shape = "absent" -> "KeyError"
      [] shape = "empty" -> "IndexError"
      [] shape = "null" -> "TypeError"

DateTimeWithOffset ==
    <<"2", "0", "2", "4", "-", "0", "7", "-", "0", "3", "T", "1", "0", ":", "0", "0",
      ":", "0", "0", ".", "0", "0", "0", "-", "0", "4", ":", "0", "0">>
DateOnly == <<"2", "0", "2", "4", "-", "0", "7", "-", "0", "3">>
DateMonth13 == <<"2", "0", "2", "4", "-", "1", "3", "-", "0", "1">>

\* The title of the row at each position of a batch.
Titles == <<"task1", "task2", "task3", "task4", "task5">>

GoodRow(i) ==
    [Name |-> [shape |-> "ok", text |-> Titles[i]],
     Date |-> [shape |-> "ok", start |-> DateTimeWithOffset],
     Type |-> [shape |-> "ok", name |-> "assignment"],
     Class |-> [shape |-> "ok", id |-> "class-page"]]

RowKinds ==
    {"good", "date_only", "date_unparseable", "name_absent", "name_empty",
     "date_null", "type_null", "class_absent", "class_empty"}

\* The row of kind k at position i.
Row(i, k) ==
    CASE k = "good" -> GoodRow(i)
      [] k = "date_only" -> [GoodRow(i) EXCEPT !.Date.start = DateOnly]
      [] k = "date_unparseable" -> [GoodRow(i) EXCEPT !.Date.start = DateMonth13]
      [] k = "name_absent" -> [GoodRow(i) EXCEPT !.Name.shape = "absent"]
      [] k = "name_empty" -> [GoodRow(i) EXCEPT !.Name.shape = "empty"]
      [] k = "date_null" -> [GoodRow(i) EXCEPT !.Date.shape = "null"]
      [] k = "type_null" -> [GoodRow(i) EXCEPT !.Type.shape = "null"]
      [] k = "class_absent" -> [GoodRow(i) EXCEPT !.Class.shape = "absent"]
      [] k = "class_empty" -> [GoodRow(i) EXCEPT !.Class.shape = "empty"]

Batches ==
    UNION {{[i \in 1..n |-> Row(i, ks[i])] : ks \in [1..n -> RowKinds]} : n \in 0..MaxRows}

\* What databases.query does: it raises, or it answers with rows.
QueryOutcomes ==
    {[kind |-> "error", results |-> <<>>]}
        \cup {[kind |-> "response", results |-> b] : b \in Batches}

\* What the GET of get_name_from_id meets.
LookupResponses ==
    {[kind |-> "transport_error", shape |-> "absent", text |-> ""],
     [kind |-> "http_error", shape |-> "absent", text |-> ""],
     [kind |-> "json", shape |-> "absent", text |-> ""],
     [kind |-> "json", shape |-> "empty", text |-> ""],
     [kind |-> "json", shape |-> "ok", text |-> ""],
     [kind |-> "json", shape |-> "ok", text |-> "CS101"]}
NotCalled == [kind |-> "not_called", shape |-> "absent", text |-> ""]

\* ------------------------------------------ NotionClient.get_name_from_id
\* Lines 41-49. requests.get raises a RequestException on a transport
\* error and raise_for_status raises one (HTTPError) on a non-success
\* status; only RequestException is caught.
get_name_from_id(resp) ==
    IF resp.kind \in {"transport_error", "http_error"} THEN Ok([py |-> "None", s |-> ""])
    ELSE IF resp.shape # "ok" THEN Raise(SubscriptError(resp.shape))
    ELSE Ok([py |-> "str", s |-> resp.text])

\* ------------------------------------ NotionClient.get_recent / get_today
\* Lines 62-79: the except clause logs and returns None.
get_recent_swallow(outcome) == List(outcome.results)
get_recent(outcome) ==
    IF outcome.kind = "error" THEN NoneVal ELSE List(outcome.results)

\* Lines 92-123.
get_today(outcome) ==
    IF outcome.kind = "error" THEN NoneVal ELSE List(outcome.results)

\* ------------------------------------------ NotionClient.get_page_strings
\* Lines 170-173: the four extractions, in order.
\* page_date is the outcome of line 171's _parse_date call.
ExtractWith(item, page_date) ==
    IF item.Name.shape # "ok" THEN Raise(SubscriptError(item.Name.shape))
    ELSE IF item.Date.shape # "ok" THEN Raise(SubscriptError(item.Date.shape))
    ELSE IF page_date.tag = "raise" THEN page_date
    ELSE IF item.Type.shape # "ok" THEN Raise(SubscriptError(item.Type.shape))
    ELSE IF item.Class.shape # "ok" THEN Raise(SubscriptError(item.Class.shape))
    ELSE Ok([page_name |-> item.Name.text,
             page_date |-> page_date.val,
             page_type |-> item.Type.name,
             class_id |-> item.Class.id])

ExtractFields(item) == ExtractWith(item, _parse_date(item.Date.start))

\* Line 176: the f-string, as its parts.
PageString(f, class_name) ==
    <<f.page_name, ", a ", f.page_type, " for ", class_name, " due on ", f.page_date>>

\* One iteration of the loop, lines 168-180, when the lookup meets resp:
\* the item's string is appended, the item is skipped, or an exception
\* that is no KeyError leaves the loop.
\* The exception raised inside the try block, "" if none: the
\* extractions come first, the lookup (line 174) after them.
Thrown(ext, looked) ==
    IF ext.tag = "raise" THEN ext.exc
    ELSE IF looked.tag = "raise" THEN looked.exc ELSE ""

\* Lines 175-180, given what the try block did.
IterationOutcome(ext, looked, thrown) ==
    IF thrown = "KeyError"
    THEN [kind |-> "skip", s |-> <<>>, exc |-> "", called |-> ext.tag = "ok"]
    ELSE IF thrown # ""
    THEN [kind |-> "raise", s |-> <<>>, exc |-> thrown, called |-> ext.tag = "ok"]
    ELSE IF looked.val.py = "str" /\ looked.val.s # ""
    THEN [kind |-> "append", s |-> PageString(ext.val, looked.val.s), exc |-> "",
          called |-> TRUE]
    ELSE [kind |-> "skip", s |-> <<>>, exc |-> "", called |-> TRUE]

IterationOf(ext, looked) == IterationOutcome(ext, looked, Thrown(ext, looked))


\* ------------------------------------------------------------ actions
\* The parts of the program a specification leaves out stay switched off.
NotionOff ==
    /\ n_pc = "off" /\ n_mode = "" /\ n_failed = FALSE /\ n_result = NoneVal
    /\ n_idx = 0 /\ n_lookups = <<>> /\ n_strings = <<>> /\ n_exc = ""
CalendarOff ==
    /\ c_pc = "off" /\ c_now = 1 /\ c_loaded = 1 /\ c_call = <<>> /\ c_out = <<>>
FormatterOff == f_pc = "off" /\ f_events = <<>> /\ f_out = <<>>
CliOff ==
    /\ m_pc = "off" /\ m_urls = <<>> /\ m_idx = 0 /\ m_all = <<>>
    /\ m_printed = <<>> /\ m_exc = ""

NInit ==
    /\ CalendarOff /\ FormatterOff /\ CliOff
    /\ n_pc = "start"
    /\ n_mode = ""
    /\ n_failed = FALSE
    /\ n_result = NoneVal
    /\ n_idx = 0
    /\ n_lookups = <<>>
    /\ n_strings = <<>>
    /\ n_exc = ""

\* cli.py line 63: client.get_recent()
GetRecent ==
    /\ UNCHANGED <<cvars, fvars, mvars>>
    /\ n_pc = "start"
    /\ \E outcome \in QueryOutcomes :
          /\ n_failed' = (outcome.kind = "error")
          /\ n_result' = get_recent(outcome)
    /\ n_mode' = "recent"
    /\ n_pc' = "queried"
    /\ UNCHANGED <<n_idx, n_lookups, n_strings, n_exc>>

\* cli.py line 68: client.get_today()
GetToday ==
    /\ UNCHANGED <<cvars, fvars, mvars>>
    /\ n_pc = "start"
    /\ \E outcome \in QueryOutcomes :
          /\ n_failed' = (outcome.kind = "error")
          /\ n_result' = get_today(outcome)
    /\ n_mode' = "today"
    /\ n_pc' = "queried"
    /\ UNCHANGED <<n_idx, n_lookups, n_strings, n_exc>>

\* get_page_strings, lines 164-167: the early return and the empty list.
EnterPageStrings ==
    /\ UNCHANGED <<cvars, fvars, mvars>>
    /\ n_pc = "queried"
    /\ n_pc' = IF Truthy(n_result) THEN "loop" ELSE "returned"
    /\ n_idx' = 1
    /\ n_strings' = <<>>
    /\ UNCHANGED <<n_mode, n_failed, n_result, n_lookups, n_exc>>

\* get_page_strings, lines 168-180: one iteration.
ProcessItem ==
    /\ UNCHANGED <<cvars, fvars, mvars>>
    /\ n_pc = "loop"
    /\ n_idx <= Len(n_result.items)
    /\ \E ext \in {ExtractFields(n_result.items[n_idx])} :
       \E resp \in LookupResponses :
       \E out \in {IterationOf(ext, get_name_from_id(resp))} :
              /\ n_lookups' = Append(n_lookups,
                      IF out.called THEN resp ELSE NotCalled)
              /\ n_strings' = IF out.kind = "append" THEN Append(n_strings, out.s)
                              ELSE n_strings
              /\ n_pc' = IF out.kind = "raise" THEN "raised" ELSE "loop"
              /\ n_exc' = out.exc
    /\ n_idx' = n_idx + 1
    /\ UNCHANGED <<n_mode, n_failed, n_result>>

\* get_page_strings, line 182.
ReturnPageStrings ==
    /\ UNCHANGED <<cvars, fvars, mvars>>
    /\ n_pc = "loop"
    /\ n_idx > Len(n_result.items)
    /\ n_pc' = "returned"
    /\ UNCHANGED <<n_mode, n_failed, n_result, n_idx, n_lookups, n_strings, n_exc>>

NNext == GetRecent \/ GetToday \/ EnterPageStrings \/ ProcessItem \/ ReturnPageStrings

SpecNotion == NInit /\ [][NNext]_vars

\* ------------------------------------------------- claims on the task adapter
Terminal == n_pc \in {"returned", "raised"}
\* The row at position i was rendered into page_strings.
Rendered(i) == \E k \in 1..Len(n_strings) : n_strings[k][1] = Titles[i]
WellFormed(item) == ExtractFields(item).tag = "ok"
\* The lookup that met resp gave a usable name.
LookupGaveName(resp) ==
    /\ resp.kind = "json"
    /\ get_name_from_id(resp).tag = "ok"
    /\ get_name_from_id(resp).val.s # ""

\* C1: whatever the group lookups meet (transport error, non-success
\* status, a response without the title field or with an empty title
\* list), get_page_strings does not raise, and of a batch of rows whose
\* fields all extract exactly the rows whose lookup gave a name are in
\* the returned list.
C1_LookupFailureIsolated ==
    (Terminal /\ n_result.py = "list"
        /\ \A i \in 1..Len(n_result.items) : WellFormed(n_result.items[i]))
    => /\ n_pc = "returned"
       /\ \A i \in 1..Len(n_result.items) : Rendered(i) <=> LookupGaveName(n_lookups[i])

\* C2: a row with a missing or malformed required field, or with a date
\* _parse_date cannot parse, is skipped: when every lookup made gives a
\* name, get_page_strings does not raise and exactly the well-formed rows
\* of the batch are in the returned list.
C2_MalformedRowSkipped ==
    (Terminal /\ n_result.py = "list"
        /\ \A i \in 1..Len(n_lookups) :
              n_lookups[i] = NotCalled \/ LookupGaveName(n_lookups[i]))
    => /\ n_pc = "returned"
       /\ \A i \in 1..Len(n_result.items) : Rendered(i) <=> WellFormed(n_result.items[i])

\* C3 as stated: after a failed query the CLI's result of
\* get_page_strings(get_recent()) or get_page_strings(get_today()) differs
\* from the empty list it gets after a successful query with zero rows.
C3_FailureDistinguishable ==
    (Terminal /\ n_failed) => ~(n_pc = "returned" /\ n_strings = <<>>)

\* C3 as amended: the failed query is signalled by the None that
\* get_recent / get_today return (a successful query returns a list,
\* possibly empty), and get_page_strings turns both None and the empty
\* list into the same returned empty list, raising nothing.
C3_FailureSignalEndsAtQuery ==
    /\ n_pc # "start" => (n_failed <=> n_result.py = "None")
    /\ (Terminal /\ ~Truthy(n_result)) => (n_pc = "returned" /\ n_strings = <<>>)

C3_Witness ==
    n_pc = "returned" /\ n_failed /\ n_result.py = "None" /\ n_strings = <<>>

\* =================================================== calendar_client.py
\* ------------------------------------------------------- dates and times
\* Consecutive calendar days, across a month boundary.
DayList ==
    <<[y |-> 2024, m |-> 6, d |-> 29], [y |-> 2024, m |-> 6, d |-> 30],
      [y |-> 2024, m |-> 7, d |-> 1], [y |-> 2024, m |-> 7, d |-> 2],
      [y |-> 2024, m |-> 7, d |-> 3], [y |-> 2024, m |-> 7, d |-> 4]>>

\* date.__le__
DateLE(a, b) ==
    \/ a.y < b.y
    \/ a.y = b.y /\ a.m < b.m
    \/ a.y = b.y /\ a.m = b.m /\ a.d <= b.d

\* The .dt of a DTSTART / DTEND property: a datetime.date (kind "date")
\* or a datetime.datetime (kind "datetime"), naive or carrying a UTC
\* offset in minutes.
DateValue(date) ==
    [kind |-> "date", date |-> date, H |-> 0, M |-> 0, S |-> 0,
     aware |-> FALSE, offset |-> 0]
DateTimeValue(date, H, M, aware, offset) ==
    [kind |-> "datetime", date |-> date, H |-> H, M |-> M, S |-> 0,
     aware |-> aware, offset |-> offset]

\* Lines 28-38: a datetime is kept, a date is combined with midnight.
AsDatetime(v) ==
    IF v.kind = "datetime" THEN v
    ELSE DateTimeValue(v.date, 0, 0, FALSE, 0)

DigitChars == <<"0", "1", "2", "3", "4", "5", "6", "7", "8", "9">>
Pad2(n) == <<DigitChars[(n \div 10) + 1], DigitChars[(n % 10) + 1]>>
Pad4(n) == Pad2(n \div 100) \o Pad2(n % 100)
Abs(n) == IF n < 0 THEN -n ELSE n

\* datetime.isoformat() of a datetime without microseconds.
OffsetText(v) ==
    IF ~v.aware THEN <<>>
    ELSE <<IF v.offset < 0 THEN "-" ELSE "+">>
            \o Pad2(Abs(v.offset) \div 60) \o <<":">> \o Pad2(Abs(v.offset) % 60)
isoformat(v) ==
    Pad4(v.date.y) \o <<"-">> \o Pad2(v.date.m) \o <<"-">> \o Pad2(v.date.d)
        \o <<"T">> \o Pad2(v.H) \o <<":">> \o Pad2(v.M) \o <<":">> \o Pad2(v.S)
        \o OffsetText(v)

\* time.strftime("%H:%M")
strftime_HM(v) == Pad2(v.H) \o <<":">> \o Pad2(v.M)

\* ord() of the characters isoformat produces.
Ord(c) ==
    CASE c = "+" -> 43 [] c = "-" -> 45 [] c = ":" -> 58 [] c = "T" -> 84
      [] OTHER -> 48 + DigitVal(c)

\* str.__lt__: by code point, a proper prefix first.
RECURSIVE StrLT(_, _)
StrLT(a, b) ==
    IF b = <<>> THEN FALSE
    ELSE IF a = <<>> THEN TRUE
    ELSE IF Head(a) # Head(b) THEN Ord(Head(a)) < Ord(Head(b))
    ELSE StrLT(Tail(a), Tail(b))

\* An optional text of a component: None or a str.
PyNone == [py |-> "None", s |-> <<>>]
PyStr(chars) == [py |-> "str", s |-> chars]
\* Truthiness of such a value.
TruthyStr(v) == v.py = "str" /\ v.s # <<>>

\* ---------------------------------------------------- get_days_events
\* Line 40.
OnDayExclusiveEnd(start, end, today) ==
    DateLE(start.date, today) /\ DateLE(today, end.date) /\ today # end.date
OnDay(start, end, today) ==
    DateLE(start.date, today) /\ DateLE(today, end.date)

\* Lines 41-50.
EventInfo(event, start, end) ==
    [name |-> event.name,
     dtstart |-> PyStr(isoformat(start)),
     start_time |-> strftime_HM(start),
     dtend |-> PyStr(isoformat(end)),
     end_time |-> strftime_HM(end),
     description |-> event.description,
     location |-> event.location,
     summary |-> event.summary]

\* Line 54: the sort key, a pair of strings, compared as tuples.
SortKeyLT(x, y) ==
    \/ StrLT(x.dtstart.s, y.dtstart.s)
    \/ x.dtstart.s = y.dtstart.s /\ StrLT(x.dtend.s, y.dtend.s)

\* list.sort is stable: x goes before the first element that is greater.
RECURSIVE InsertSorted(_, _)
InsertSorted(sorted, x) ==
    IF sorted = <<>> THEN <<x>>
    ELSE IF SortKeyLT(x, Head(sorted)) THEN <<x>> \o sorted
    ELSE <<Head(sorted)>> \o InsertSorted(Tail(sorted), x)

RECURSIVE SortEvents(_)
SortEvents(events) ==
    IF events = <<>> THEN <<>>
    ELSE InsertSorted(SortEvents(SubSeq(events, 1, Len(events) - 1)),
                      events[Len(events)])

\* Lines 23-51: the loop over calendar.walk("vevent"), every VEVENT
\* having its dtstart and dtend.
RECURSIVE CollectEvents(_, _)
CollectEvents(vevents, today) ==
    IF vevents = <<>> THEN <<>>
    ELSE IF OnDay(AsDatetime(Head(vevents).dtstart.dt),
                  AsDatetime(Head(vevents).dtend.dt), today)
    THEN <<EventInfo(Head(vevents), AsDatetime(Head(vevents).dtstart.dt),
                     AsDatetime(Head(vevents).dtend.dt))>>
            \o CollectEvents(Tail(vevents), today)
    ELSE CollectEvents(Tail(vevents), today)

\* event.get("dtstart") or event.get("dtend") is None for some VEVENT:
\* None.dt raises AttributeError.
LacksTimes(vevents) ==
    \E i \in 1..Len(vevents) : ~vevents[i].dtstart.present \/ ~vevents[i].dtend.present

\* Lines 18-55. No status check follows requests.get: the body of any
\* response is handed to Calendar.from_ical.
get_days_events(resp, today) ==
    IF resp.kind = "network_error" THEN Raise("RequestException")
    ELSE IF ~resp.ical THEN Raise("ValueError")
    ELSE IF LacksTimes(resp.vevents) THEN Raise("AttributeError")
    ELSE Ok(SortEvents(CollectEvents(resp.vevents, today)))

\* ---------------------------------------------------- calendar documents
Summaries == <<<<"e", "1">>, <<"e", "2">>, <<"e", "3">>, <<"e", "4">>>>

\* Sample times of day: an all-day date, a naive date-time, and date-times
\* at UTC+02:00 and at UTC.
TimeKinds == {"date", "naive", "plus2", "utc"}
SampleValue(kind, day, later) ==
    CASE kind = "date" -> DateValue(DayList[day])
      [] kind = "naive" -> DateTimeValue(DayList[day], 9 + later, 0, FALSE, 0)
      [] kind = "plus2" -> DateTimeValue(DayList[day], 10 + later, 30, TRUE, 120)
      [] kind = "utc" -> DateTimeValue(DayList[day], 9 + later, 0, TRUE, 0)

\* The shapes a VEVENT is drawn from: a time kind, a first day and a
\* length in days (0: it ends the day it starts), or a missing property.
EventShapes ==
    [times : {"both"}, kind : TimeKinds, day : 2..3, days : 0..1]
        \cup [times : {"no_dtstart", "no_dtend"}, kind : {"date"}, day : {2}, days : {0}]

VEvent(i, sh) ==
    [name |-> PyNone,
     summary |-> PyStr(Summaries[i]),
     description |-> PyNone,
     location |-> PyNone,
     dtstart |-> [present |-> sh.times # "no_dtstart",
                  dt |-> SampleValue(sh.kind, sh.day, 0)],
     dtend |-> [present |-> sh.times # "no_dtend",
                dt |-> IF sh.days = 0 THEN SampleValue(sh.kind, sh.day, 1)
                       ELSE SampleValue(sh.kind, sh.day + sh.days, 0)]]

Documents ==
    UNION {{[i \in 1..n |-> VEvent(i, shs[i])] : shs \in [1..n -> EventShapes]} :
              n \in 0..MaxEvents}

\* What requests.get meets: no answer at all, or an answer with a status
\* and a body that is an iCalendar document or is not.
Responses ==
    {[kind |-> "network_error", status |-> 0, ical |-> FALSE, vevents |-> <<>>]}
        \cup {[kind |-> "response", status |-> st, ical |-> FALSE, vevents |-> <<>>] :
                 st \in {200, 404}}
        \cup {[kind |-> "response", status |-> st, ical |-> TRUE, vevents |-> doc] :
                 st \in {200, 404}, doc \in Documents}

\* ------------------------------------------------------------ actions
CInit ==
    /\ NotionOff /\ FormatterOff /\ CliOff
    /\ c_pc = "idle"
    /\ c_now \in 2..MaxDay
    \* line 8: the default of req_date is evaluated once, by the def statement
    /\ c_loaded = c_now
    /\ c_call = <<>>
    /\ c_out = <<>>

\* A day passes.
Tick ==
    /\ UNCHANGED <<nvars, fvars, mvars>>
    /\ c_pc = "idle"
    /\ c_now < MaxDay + 1
    /\ c_now' = c_now + 1
    /\ UNCHANGED <<c_pc, c_loaded, c_call, c_out>>

\* get_days_events(url, req_date) with req_date on day D.
CallWithDate ==
    /\ UNCHANGED <<nvars, fvars, mvars>>
    /\ c_pc = "idle"
    /\ \E resp \in Responses, D \in 1..(MaxDay + 2) :
          /\ c_call' = [resp |-> resp, explicit |-> TRUE, today |-> DayList[D],
                        now |-> DayList[c_now]]
          /\ c_out' = get_days_events(resp, DayList[D])
    /\ c_pc' = "called"
    /\ UNCHANGED <<c_now, c_loaded>>

\* get_days_events(url): req_date is the default.
CallWithDefault ==
    /\ UNCHANGED <<nvars, fvars, mvars>>
    /\ c_pc = "idle"
    /\ \E resp \in Responses :
          /\ c_call' = [resp |-> resp, explicit |-> FALSE, today |-> DayList[c_loaded],
                        now |-> DayList[c_now]]
          /\ c_out' = get_days_events(resp, DayList[c_loaded])
    /\ c_pc' = "called"
    /\ UNCHANGED <<c_now, c_loaded>>

\* The caller goes on; the next call starts afresh.
CallEnds ==
    /\ UNCHANGED <<nvars, fvars, mvars>>
    /\ c_pc = "called"
    /\ c_pc' = "idle"
    /\ c_call' = <<>>
    /\ c_out' = <<>>
    /\ UNCHANGED <<c_now, c_loaded>>

CNext == Tick \/ CallWithDate \/ CallWithDefault \/ CallEnds

SpecCalendar == CInit /\ [][CNext]_vars

\* ------------------------------------------- claims on get_days_events
\* The position of a date in the calendar.
DayOf(date) == CHOOSE i \in 1..Len(DayList) : DayList[i] = date
\* The VEVENT at position i of the fetched document is in the returned list.
Listed(i) ==
    \E k \in 1..Len(c_out.val) : c_out.val[k].summary = c_call.resp.vevents[i].summary
\* The position in the document of the event at position k of the list.
SourceOf(k) ==
    CHOOSE i \in 1..Len(c_call.resp.vevents) :
        c_call.resp.vevents[i].summary = c_out.val[k].summary
\* A dtstart / dtend as minutes on the time line, a bare date being
\* midnight and an offset being taken off.
Instant(v) == DayOf(v.date) * 1440 + v.H * 60 + v.M - v.offset
\* Two events whose instants Python can order: naive with naive, aware
\* with aware.
Comparable(a, b) ==
    a.dtstart.dt.aware = b.dtstart.dt.aware /\ a.dtend.dt.aware = b.dtend.dt.aware
InstantKeyLT(a, b) ==
    \/ Instant(a.dtstart.dt) < Instant(b.dtstart.dt)
    \/ /\ Instant(a.dtstart.dt) = Instant(b.dtstart.dt)
       /\ Instant(a.dtend.dt) < Instant(b.dtend.dt)
InOrder(i, j) ==
    /\ ~InstantKeyLT(c_call.resp.vevents[j], c_call.resp.vevents[i])
    /\ InstantKeyLT(c_call.resp.vevents[i], c_call.resp.vevents[j]) \/ i < j

\* C4: get_days_events(url, D) lists a VEVENT of the fetched document if
\* and only if start.date() <= D <= end.date(), dates only, both ends
\* inclusive, a bare date counting as that date.
C4_ListedIffOnDay ==
    (c_pc = "called" /\ c_call.explicit /\ c_out.tag = "ok")
    => \A i \in 1..Len(c_call.resp.vevents) :
          Listed(i) <=>
              /\ DayOf(c_call.resp.vevents[i].dtstart.dt.date) <= DayOf(c_call.today)
              /\ DayOf(c_call.today) <= DayOf(c_call.resp.vevents[i].dtend.dt.date)

\* An event that started before D and ends on D is listed beside one
\* that is not on D.
C4_Witness ==
    /\ c_pc = "called" /\ c_call.explicit /\ c_out.tag = "ok"
    /\ Len(c_call.resp.vevents) = 2 /\ Len(c_out.val) = 1
    /\ \E i \in 1..2 :
          /\ Listed(i)
          /\ c_call.resp.vevents[i].dtend.dt.date = c_call.today
          /\ c_call.resp.vevents[i].dtstart.dt.date # c_call.today

\* C5: the returned list is ascending by (start instant, end instant),
\* events with equal instants keeping their document order, for every
\* mix of all-day events, naive date-times and date-times with offsets.
C5_SortedByInstant ==
    (c_pc = "called" /\ c_out.tag = "ok")
    => \A k, l \in 1..Len(c_out.val) :
          (k < l /\ Comparable(c_call.resp.vevents[SourceOf(k)],
                               c_call.resp.vevents[SourceOf(l)]))
          => InOrder(SourceOf(k), SourceOf(l))

\* C6: a GET that fails at the network level or is answered with a
\* non-success status makes get_days_events fail; no event list is built
\* from the body of a non-success response.
C6_NonSuccessFails ==
    (c_pc = "called"
        /\ (c_call.resp.kind = "network_error" \/ c_call.resp.status \notin 200..299))
    => c_out.tag = "raise"

\* C9: a call without a reference date filters against the current date
\* at the moment of the call.
C9_DefaultIsDateOfCall ==
    (c_pc = "called" /\ ~c_call.explicit /\ c_out.tag = "ok")
    => c_call.today = c_call.now

\* ------------------------------------------------------ get_event_strings
TextSync == <<"S", "y", "n", "c">>
TextCall == <<"c", "a", "l", "l">>
TextHQ == <<"H", "Q">>

\* Lines 69-73: a clause is emitted when its field is truthy.
SummaryClause(event) ==
    IF TruthyStr(event.summary) THEN event.summary.s \o <<",", " ">> ELSE <<>>
DescriptionClause(event) ==
    IF TruthyStr(event.description) THEN <<"a", " ">> \o event.description.s \o <<" ">> ELSE <<>>
TimesClause(event) ==
    IF TruthyStr(event.dtstart)
    THEN <<"f", "r", "o", "m", " ">> \o event.start_time \o <<" ", "t", "o", " ">> \o event.end_time \o <<" ">>
    ELSE <<>>
LocationClause(event) ==
    IF TruthyStr(event.location) THEN <<"a", "t", " ">> \o event.location.s \o <<" ">> ELSE <<>>

\* Lines 68-73: event_str for one event.
event_str_location_first(event) ==
    SummaryClause(event) \o DescriptionClause(event) \o LocationClause(event)
        \o TimesClause(event)
event_str(event) ==
    SummaryClause(event) \o DescriptionClause(event) \o TimesClause(event)
        \o LocationClause(event)

\* Lines 66-75.
get_event_strings(events) == [i \in 1..Len(events) |-> event_str(events[i])]

\* The display records the formatter is called with: each optional text
\* None, empty or present; dtstart with its times, or absent.
DisplayRecords ==
    {[name |-> PyNone, summary |-> su, description |-> de, location |-> lo,
      dtstart |-> IF timed THEN PyStr(isoformat(SampleValue("naive", 2, 0))) ELSE PyNone,
      start_time |-> strftime_HM(SampleValue("naive", 2, 0)),
      dtend |-> IF timed THEN PyStr(isoformat(SampleValue("naive", 2, 1))) ELSE PyNone,
      end_time |-> strftime_HM(SampleValue("naive", 2, 1))] :
        su \in {PyNone, PyStr(<<>>), PyStr(TextSync)},
        de \in {PyNone, PyStr(TextCall)},
        lo \in {PyNone, PyStr(<<>>), PyStr(TextHQ)},
        timed \in BOOLEAN}

RecordLists == UNION {[1..n -> DisplayRecords] : n \in 0..MaxRecords}

FInit ==
    /\ NotionOff /\ CalendarOff /\ CliOff
    /\ f_pc = "idle"
    /\ f_events = <<>>
    /\ f_out = <<>>

\* get_event_strings(events)
Format ==
    /\ UNCHANGED <<nvars, cvars, mvars>>
    /\ f_pc = "idle"
    /\ \E events \in RecordLists :
          /\ f_events' = events
          /\ f_out' = get_event_strings(events)
    /\ f_pc' = "done"

FNext == Format

SpecFormatter == FInit /\ [][FNext]_vars

\* ----------------------------------------- claims on get_event_strings
\* sub occurs in s at position i.
OccursAt(s, sub, i) ==
    i >= 1 /\ i + Len(sub) - 1 <= Len(s) /\ SubSeq(s, i, i + Len(sub) - 1) = sub
Occurs(s, sub) == \E i \in 1..Len(s) : OccursAt(s, sub, i)
\* Where sub first occurs in s; 0 if nowhere.
FirstAt(s, sub) ==
    IF Occurs(s, sub)
    THEN CHOOSE i \in 1..Len(s) :
            OccursAt(s, sub, i) /\ \A j \in 1..(i - 1) : ~OccursAt(s, sub, j)
    ELSE 0
\* The clause texts a record's line is expected to hold.
ExpectSummary(e) == e.summary.s \o <<",", " ">>
ExpectDescription(e) == <<"a", " ">> \o e.description.s \o <<" ">>
ExpectTimes(e) == <<"f", "r", "o", "m", " ">> \o e.start_time \o <<" ", "t", "o", " ">> \o e.end_time \o <<" ">>
ExpectLocation(e) == <<"a", "t", " ">> \o e.location.s \o <<" ">>
\* a and b both occur in the line, a first: vacuous unless both are wanted.
Before(line, wantA, a, wantB, b) ==
    (wantA /\ wantB) => FirstAt(line, a) < FirstAt(line, b)

\* The line of one record: each clause there exactly when its field is
\* non-empty, in the order summary, description, times, location, and
\* nothing else in the line.
ClausesOf(e, line) ==
    /\ TruthyStr(e.summary) <=> Occurs(line, <<",">>)
    /\ TruthyStr(e.summary) => OccursAt(line, ExpectSummary(e), 1)
    /\ TruthyStr(e.description) <=> Occurs(line, <<"a", " ">>)
    /\ TruthyStr(e.description) => Occurs(line, ExpectDescription(e))
    /\ TruthyStr(e.dtstart) <=> Occurs(line, <<"f", "r", "o", "m", " ">>)
    /\ TruthyStr(e.dtstart) => Occurs(line, ExpectTimes(e))
    /\ TruthyStr(e.location) <=> Occurs(line, <<"a", "t", " ">>)
    /\ TruthyStr(e.location) => Occurs(line, ExpectLocation(e))
    /\ Before(line, TruthyStr(e.summary), <<",">>, TruthyStr(e.description), <<"a", " ">>)
    /\ Before(line, TruthyStr(e.summary), <<",">>, TruthyStr(e.dtstart), <<"f", "r", "o", "m", " ">>)
    /\ Before(line, TruthyStr(e.summary), <<",">>, TruthyStr(e.location), <<"a", "t", " ">>)
    /\ Before(line, TruthyStr(e.description), <<"a", " ">>, TruthyStr(e.dtstart), <<"f", "r", "o", "m", " ">>)
    /\ Before(line, TruthyStr(e.description), <<"a", " ">>, TruthyStr(e.location), <<"a", "t", " ">>)
    /\ Before(line, TruthyStr(e.dtstart), <<"f", "r", "o", "m", " ">>, TruthyStr(e.location), <<"a", "t", " ">>)
    /\ Len(line) = (IF TruthyStr(e.summary) THEN Len(ExpectSummary(e)) ELSE 0)
                 + (IF TruthyStr(e.description) THEN Len(ExpectDescription(e)) ELSE 0)
                 + (IF TruthyStr(e.dtstart) THEN Len(ExpectTimes(e)) ELSE 0)
                 + (IF TruthyStr(e.location) THEN Len(ExpectLocation(e)) ELSE 0)
    /\ ~Occurs(line, <<" ", " ">>)

\* Only the summary of the record is non-empty.
OnlySummary(e) ==
    /\ TruthyStr(e.summary) /\ ~TruthyStr(e.description)
    /\ ~TruthyStr(e.dtstart) /\ ~TruthyStr(e.location)

\* C7 as stated, its last part: a line never ends with a separator, be it
\* a dangling comma or a trailing space.
C7_NoTrailingSeparator ==
    f_pc = "done"
    => /\ Len(f_out) = Len(f_events)
       /\ \A i \in 1..Len(f_out) :
             /\ ClausesOf(f_events[i], f_out[i])
             /\ f_out[i] # <<>> => f_out[i][Len(f_out[i])] \notin {" ", ","}

\* C7 as amended: the clauses come in the order summary, description,
\* times, location, each one there exactly when its field is non-empty, and
\* an absent field leaves nothing behind (no "at " clause, no double
\* space); but every clause ends with its own separator, so a non-empty
\* line ends with a space, and the line of a record with only a summary
\* is the summary followed by ", ".
C7_ClausesKeepTheirSeparator ==
    f_pc = "done"
    => /\ Len(f_out) = Len(f_events)
       /\ \A i \in 1..Len(f_out) :
             /\ ClausesOf(f_events[i], f_out[i])
             /\ f_out[i] # <<>> => f_out[i][Len(f_out[i])] = " "
             /\ OnlySummary(f_events[i]) => f_out[i] = f_events[i].summary.s \o <<",", " ">>

\* A record with a summary and times but no location, and one with only
\* a summary.
C7_Witness ==
    /\ f_pc = "done" /\ Len(f_events) = 2
    /\ TruthyStr(f_events[1].summary) /\ TruthyStr(f_events[1].dtstart)
    /\ f_events[1].description = PyNone /\ f_events[1].location = PyNone
    /\ f_out[1] = <<"S", "y", "n", "c", ",", " ", "f", "r", "o", "m", " ", "0", "9", ":", "0", "0", " ", "t", "o", " ", "1", "0", ":", "0", "0", " ">>
    /\ OnlySummary(f_events[2])
    /\ f_out[2] = <<"S", "y", "n", "c", ",", " ">>

\* ======================================================= cli.py, --today
\* What the GET of one configured URL meets: as Responses, with documents
\* of at most one VEVENT.
CliResponses == {r \in Responses : Len(r.vevents) <= 1}
UrlLists == UNION {[1..n -> CliResponses] : n \in 0..MaxUrls}

\* print_today_events, lines 38-42: the lines printed.
HeaderLine == <<"E", "v", "e", "n", "t", "s", " ", "f", "o", "r", " ", "t", "o", "d", "a", "y", ":">>
RuleLine == <<"-", "-", "-", "-", "-", "-", "-", "-", "-", "-", "-", "-", "-", "-", "-">>
BulletLines(events) == [i \in 1..Len(events) |-> <<"-", " ">> \o events[i]]
print_today_events(events) == <<HeaderLine, RuleLine>> \o BulletLines(events) \o <<<<>>>>

MInit ==
    /\ NotionOff /\ FormatterOff
    \* calendar_client is imported as the program starts
    /\ c_pc = "off" /\ c_now \in 2..MaxDay /\ c_loaded = c_now
    /\ c_call = <<>> /\ c_out = <<>>
    /\ m_pc = "start"
    /\ m_urls = <<>>
    /\ m_idx = 0
    /\ m_all = <<>>
    /\ m_printed = <<>>
    /\ m_exc = ""

\* Lines 72-73: the URLs of the configuration, and what each will meet.
ReadUrls ==
    /\ UNCHANGED <<nvars, cvars, fvars>>
    /\ m_pc = "start"
    /\ m_urls' \in UrlLists
    /\ m_idx' = 1
    /\ m_all' = <<>>
    /\ m_pc' = "loop"
    /\ UNCHANGED <<m_printed, m_exc>>

\* Lines 74-77: one iteration; an exception of get_days_events leaves main.
FetchUrl ==
    /\ UNCHANGED <<nvars, cvars, fvars>>
    /\ m_pc = "loop"
    /\ m_idx <= Len(m_urls)
    /\ \E today_events \in {get_days_events(m_urls[m_idx], DayList[c_loaded])} :
          /\ m_pc' = IF today_events.tag = "raise" THEN "raised" ELSE "loop"
          /\ m_exc' = IF today_events.tag = "raise" THEN today_events.exc ELSE ""
          /\ m_all' = IF today_events.tag = "raise" THEN m_all
                      ELSE m_all \o get_event_strings(today_events.val)
    /\ m_idx' = m_idx + 1
    /\ UNCHANGED <<m_urls, m_printed>>

\* Line 78.
PrintEvents ==
    /\ UNCHANGED <<nvars, cvars, fvars>>
    /\ m_pc = "loop"
    /\ m_idx > Len(m_urls)
    /\ m_printed' = print_today_events(m_all)
    /\ m_pc' = "printed"
    /\ UNCHANGED <<m_urls, m_idx, m_all, m_exc>>

MNext == ReadUrls \/ FetchUrl \/ PrintEvents

SpecCli == MInit /\ [][MNext]_vars

\* ---------------------------------------------------- claims on the CLI
\* The lines get_event_strings makes of the events of URL i, when its
\* document can be fetched and read.
LinesOfUrl(i) ==
    get_event_strings(get_days_events(m_urls[i], DayList[c_loaded]).val)
Printed(line) == \E k \in 1..Len(m_printed) : m_printed[k] = <<"-", " ">> \o line

\* C10: the failure of one calendar document is caught and the document
\* dropped: when the run has ended, the events of every URL whose document
\* can be fetched and read, before and after the failing one, are printed.
C10_FailingCalendarDropped ==
    m_pc \in {"printed", "raised"}
    => \A i \in 1..Len(m_urls) :
          get_days_events(m_urls[i], DayList[c_loaded]).tag = "ok"
          => \A k \in 1..Len(LinesOfUrl(i)) : Printed(LinesOfUrl(i)[k])
====
